---- MODULE Spec2Model ----
(***************************************************************************)
(* Ledger posting engine of the accounting API: TransactionService         *)
(* (create_transaction, validate_transaction, post_transaction,            *)
(* void_transaction), Transaction.reverse_transaction and the Account      *)
(* balance cache, run by concurrent callers against one relational store.  *)
(*                                                                         *)
(* The store is modelled with read-committed isolation: the writes of a    *)
(* db_transaction.atomic() block stay in the caller's working set until    *)
(* the block exits, and a row written or selected FOR UPDATE stays locked  *)
(* by the caller until then.  Amounts are Decimals; they are modelled as   *)
(* integers (currency units), which is exact for sums and differences.     *)
(*                                                                         *)
(* The audit-log and notification writes of the service calls succeed in   *)
(* every specification but AuditSpec, where they may fail.                 *)
(***************************************************************************)
EXTENDS Integers, Sequences, FiniteSets, TLC

\* ---------------------------------------------------------------- bounds
MaxTxn == 2           \* Transaction rows the store may hold
MaxAmount == 2        \* largest amount on a journal item of the inputs
MaxDate == 2          \* transaction dates are the days 1..MaxDate

\* ------------------------------------------------------- chart of accounts
Procs == {"c1", "c2"}                       \* concurrent callers
Accounts == {"Cash", "Capital", "Restricted", "Sales", "Rent", "Closed", "Removed"}

DEBIT == "DEBIT"
CREDIT == "CREDIT"
DRAFT == "DRAFT"
PENDING == "PENDING"
POSTED == "POSTED"
VOIDED == "VOIDED"

balance_type == [a \in Accounts |-> IF a \in {"Capital", "Sales"} THEN CREDIT ELSE DEBIT]
is_active == [a \in Accounts |-> a # "Closed"]
allow_posting == [a \in Accounts |-> a # "Restricted"]
is_deleted == [a \in Accounts |-> a = "Removed"]

\* AccountType.code of the account's type
account_type ==
    [a \in Accounts |->
        CASE a = "Capital" -> "EQUITY"
          [] a = "Sales" -> "REVENUE"
          [] a = "Rent" -> "EXPENSE"
          [] OTHER -> "ASSET"]

\* opening balances the accounts are created with
OpeningCash == 10000
OpeningCapital == 5000
\* models.DecimalField(default=0) of Account.current_balance
DefaultCurrentBalance == 0

is_debit_balance(a) == balance_type[a] = DEBIT

can_post_transactions(a) == is_active[a] /\ allow_posting[a] /\ ~is_deleted[a]

\* ------------------------------------------------------------ journal data
Item(a, d, c) == [account |-> a, debit_amount |-> d, credit_amount |-> c]
Dr(a, n) == Item(a, n, 0)
Cr(a, n) == Item(a, 0, n)
Entry(items) == [items |-> items]

\* The journal_entries_data the callers submit to create_transaction:
\* balanced transfers between Cash and Capital, in both item orders ...
ValidData ==
    { <<Entry(<<Dr("Cash", MaxAmount), Cr("Capital", MaxAmount)>>)>>,
      <<Entry(<<Dr("Capital", 1), Cr("Cash", 1)>>)>> }

\* ... and data that breaks one rule of validate_transaction each
InvalidData ==
    { <<>>,                                                     \* no journal entry
      <<Entry(<<>>)>>,                                          \* entry without items
      <<Entry(<<Dr("Cash", 1), Cr("Capital", 1)>>), Entry(<<>>)>>,
      <<Entry(<<Dr("Cash", MaxAmount), Cr("Capital", 1)>>)>>,   \* debits # credits
      <<Entry(<<Dr("Cash", 1)>>)>>,                             \* debit only
      <<Entry(<<Dr("Cash", 1)>>), Entry(<<Cr("Capital", 1)>>)>>,\* balanced overall, not per entry
      <<Entry(<<Item("Cash", 1, 1)>>)>>,                        \* both debit and credit
      <<Entry(<<Item("Cash", 0, 0), Item("Capital", 0, 0)>>)>>, \* neither
      <<Entry(<<Dr("Restricted", 1), Cr("Capital", 1)>>)>> }    \* allow_posting = False

JournalEntriesData == ValidData \cup InvalidData

\* journals stored through the ORM without validation
StoredData ==
    { <<Entry(<<Dr("Cash", 1)>>)>> }

\* -------------------------------------------------------------- the state
VARIABLES
    opening_balance,   \* Account.opening_balance, fixed at creation
    current_balance,   \* Account.current_balance, committed
    transactions,      \* committed Transaction rows with their entries and items
    pc,                \* where each caller is in its call
    op,                \* the service call a caller is running
    target,            \* id of the Transaction the running call was made on
    obj,               \* the caller's in-memory Transaction as loaded
    cursor,            \* journal items _update_account_balances has gone through
    wnew,              \* uncommitted inserted Transaction rows of the caller
    wupd,              \* uncommitted updated Transaction rows of the caller
    wbal,              \* uncommitted Account.current_balance writes of the caller
    result             \* outcome of the call the last step ended, "none" if it ended none

vars == <<opening_balance, current_balance, transactions, pc, op, target, obj,
          cursor, wnew, wupd, wbal, result>>

NoObj == [status |-> "none", is_posted |-> FALSE]
Empty == [x \in {} |-> 0]

\* the transaction_date the callers of create_transaction submit
Today == 1

\* Transaction.objects.create(...): status default DRAFT, is_posted default False
NewTransaction(entries) ==
    [status |-> DRAFT, is_posted |-> FALSE, journal_entries |-> entries,
     transaction_date |-> Today]

RECURSIVE Flatten(_)
\* for entry in transaction.journal_entries.all(): for item in entry.items.all()
Flatten(entries) ==
    IF entries = <<>> THEN <<>>
    ELSE Head(entries).items \o Flatten(Tail(entries))

RECURSIVE SumDebits(_)
SumDebits(items) ==
    IF items = <<>> THEN 0 ELSE Head(items).debit_amount + SumDebits(Tail(items))

RECURSIVE SumCredits(_)
SumCredits(items) ==
    IF items = <<>> THEN 0 ELSE Head(items).credit_amount + SumCredits(Tail(items))

get_total_debits(txn) == SumDebits(Flatten(txn.journal_entries))
get_total_credits(txn) == SumCredits(Flatten(txn.journal_entries))
is_balanced(txn) == get_total_debits(txn) = get_total_credits(txn)

entry_is_balanced(entry) == SumDebits(entry.items) = SumCredits(entry.items)

Range(s) == {s[i] : i \in DOMAIN s}

\* TransactionService._validate_journal_item: the errors of one item
validate_journal_item(item) ==
    (IF item.debit_amount = 0 /\ item.credit_amount = 0 THEN {"item_neither"} ELSE {})
    \cup (IF item.debit_amount > 0 /\ item.credit_amount > 0 THEN {"item_both"} ELSE {})
    \cup (IF ~can_post_transactions(item.account) THEN {"item_account"} ELSE {})

\* TransactionService._validate_account_permissions
validate_account_permissions(txn) ==
    UNION { (IF ~is_active[i.account] THEN {"not_active"} ELSE {})
            \cup (IF ~allow_posting[i.account] THEN {"no_posting"} ELSE {})
            \cup (IF is_deleted[i.account] THEN {"deleted"} ELSE {})
            : i \in Range(Flatten(txn.journal_entries)) }

\* variant: a validation that finds nothing
validate_nothing(txn) == {}

\* variant: a validation that raises at the first rule that fails
validate_transaction_first_error(txn) ==
    IF txn.journal_entries = <<>> THEN {"no_entries"}
    ELSE IF ~is_balanced(txn) THEN {"unbalanced"}
    ELSE IF \E e \in Range(txn.journal_entries) : e.items = <<>> THEN {"entry_no_items"}
    ELSE IF \E e \in Range(txn.journal_entries) : ~entry_is_balanced(e) THEN {"entry_unbalanced"}
    ELSE IF \E i \in Range(Flatten(txn.journal_entries)) : validate_journal_item(i) # {}
         THEN LET i == CHOOSE j \in Range(Flatten(txn.journal_entries)) :
                           validate_journal_item(j) # {}
              IN  {CHOOSE x \in validate_journal_item(i) : TRUE}
    ELSE IF validate_account_permissions(txn) # {}
         THEN {CHOOSE x \in validate_account_permissions(txn) : TRUE}
    ELSE {}

\* TransactionService.validate_transaction: the set of violations found;
\* the call raises ValidationError iff the set is not empty.
validate_transaction(txn) ==
    (IF txn.journal_entries = <<>> THEN {"no_entries"} ELSE {})
    \cup (IF ~is_balanced(txn) THEN {"unbalanced"} ELSE {})
    \cup UNION { (IF e.items = <<>> THEN {"entry_no_items"} ELSE {})
                 \cup (IF ~entry_is_balanced(e) THEN {"entry_unbalanced"} ELSE {})
                 \cup UNION { validate_journal_item(i) : i \in Range(e.items) }
                 : e \in Range(txn.journal_entries) }
    \cup validate_account_permissions(txn)


\* ------------------------------------------------- the store and atomic()
\* variant: a block whose writes survive the exception
atomic_exit_no_rollback(returned, committed, working) == working

\* `with db_transaction.atomic():` at its exit: the working set of the block
\* is committed when the block returns and discarded when it raises.
atomic_exit(returned, committed, working) ==
    IF returned THEN working ELSE committed

\* The Transaction rows as caller p sees them inside its atomic block.
WorkingTransactions(p) ==
    [t \in 1..Len(transactions) |->
        IF t \in DOMAIN wupd[p] THEN wupd[p][t] ELSE transactions[t]] \o wnew[p]

\* Account.current_balance as caller p sees it inside its atomic block.
WorkingBalances(p) ==
    [a \in Accounts |-> IF a \in DOMAIN wbal[p] THEN wbal[p][a] ELSE current_balance[a]]

\* rows committed or inserted by a running call
TotalRows == Len(transactions) + Cardinality({q \in Procs : wnew[q] # <<>>})

\* the outcomes with which a call returns; every other outcome is an error raised
Returned == {"created", "posted", "voided"}

\* The exit of the outermost atomic block of caller p: commit when the call
\* returns, rollback when it raises; the row locks of p are released and the
\* caller drops the Transaction object it had loaded.
Finish(p, outcome, workTxns, workBal) ==
    /\ transactions' = atomic_exit(outcome \in Returned, transactions, workTxns)
    /\ current_balance' = atomic_exit(outcome \in Returned, current_balance, workBal)
    /\ wnew' = [wnew EXCEPT ![p] = <<>>]
    /\ wupd' = [wupd EXCEPT ![p] = Empty]
    /\ wbal' = [wbal EXCEPT ![p] = Empty]
    /\ pc' = [pc EXCEPT ![p] = "idle"]
    /\ op' = [op EXCEPT ![p] = "none"]
    /\ target' = [target EXCEPT ![p] = 0]
    /\ obj' = [obj EXCEPT ![p] = NoObj]
    /\ cursor' = [cursor EXCEPT ![p] = 0]
    /\ result' = outcome

\* ------------------------------------------------------- create_transaction
RECURSIVE BuildEntries(_, _)
\* The loop over journal_entries_data: every entry is inserted, then its items
\* are bulk-created; an entry without items raises after the entry's insert.
BuildEntries(data, acc) ==
    IF data = <<>> THEN [ok |-> TRUE, entries |-> acc]
    ELSE IF Head(data).items = <<>>
         THEN [ok |-> FALSE, entries |-> Append(acc, Entry(<<>>))]
         ELSE BuildEntries(Tail(data), Append(acc, Entry(Head(data).items)))

create_transaction(p, data) ==
    /\ pc[p] = "idle"
    /\ TotalRows < MaxTxn
    /\ LET built == BuildEntries(data, <<>>)
           row == NewTransaction(built.entries)
           outcome == IF data = <<>> THEN "create_no_entries"
                      ELSE IF ~built.ok THEN "create_no_items"
                      ELSE IF validate_transaction(row) # {} THEN "create_invalid"
                      ELSE "created"
       IN  Finish(p, outcome, Append(transactions, row), current_balance)
    /\ UNCHANGED opening_balance

\* Transaction.objects.create, JournalEntry.objects.create and
\* JournalItem.objects.create called directly, as the tests and the
\* journal-entries endpoint do: the rows are stored without validation.
objects_create(p, data) ==
    /\ pc[p] = "idle"
    /\ TotalRows < MaxTxn
    /\ transactions' = Append(transactions, NewTransaction(data))
    /\ UNCHANGED <<opening_balance, current_balance, pc, op, target, obj, cursor,
                   wnew, wupd, wbal>>
    /\ result' = "none"

\* --------------------------------------------------------- post_transaction
\* The Transaction the running post_transaction of p is posting: the target of
\* the call, or inside void_transaction the reversal p has just inserted.
PostingRow(p) ==
    IF op[p] = "void" THEN wnew[p][1] ELSE transactions[target[p]]

PostingItems(p) == Flatten(PostingRow(p).journal_entries)

\* variant: posting without the is_posted check
post_transaction_checks_no_posted_check(txn, loaded) ==
    IF validate_transaction(txn) # {} THEN "post_invalid" ELSE "ok"

\* validate_transaction(transaction), then the is_posted check on the
\* caller's Transaction object: the error raised, or "ok"
post_transaction_checks(txn, loaded) ==
    IF validate_transaction(txn) # {} THEN "post_invalid"
    ELSE IF loaded.is_posted THEN "already_posted"
    ELSE "ok"

\* an UPDATE of Transaction row t waits while another caller's uncommitted
\* UPDATE holds the row
row_lock_granted(p, t) == \A q \in Procs \ {p} : t \notin DOMAIN wupd[q]

\* variant: Account.objects.get(pk=...), a read that takes no lock
select_without_lock(p, a) == TRUE

\* Account.objects.select_for_update().get(pk=...): granted when no other
\* caller holds the row, and then held until p's outermost atomic block exits
select_for_update(p, a) == \A q \in Procs \ {p} : a \notin DOMAIN wbal[q]

\* The caller loads the Transaction and calls the service, which validates
\* it and checks is_posted (the journal of a Transaction and the flags of the
\* accounts are not written by any call, so these reads form one step).
post_transaction_begin(p, t) ==
    /\ pc[p] = "idle"
    /\ t \in 1..Len(transactions)
    /\ LET outcome == post_transaction_checks(transactions[t], transactions[t])
       IN  IF outcome # "ok"
           THEN Finish(p, outcome, WorkingTransactions(p), WorkingBalances(p))
           ELSE /\ pc' = [pc EXCEPT ![p] = "save"]
                /\ op' = [op EXCEPT ![p] = "post"]
                /\ target' = [target EXCEPT ![p] = t]
                /\ obj' = [obj EXCEPT ![p] = [status |-> transactions[t].status,
                                              is_posted |-> transactions[t].is_posted]]
                /\ UNCHANGED <<current_balance, transactions, cursor, wnew, wupd, wbal>>
                /\ result' = "none"
    /\ UNCHANGED opening_balance

\* variant: a save that clears the journal of a row found posted
post_transaction_save_drops_journal(p) ==
    /\ pc[p] = "save"
    /\ IF op[p] = "void"
       THEN /\ wnew' = [wnew EXCEPT ![p] =
                          <<[wnew[p][1] EXCEPT !.status = POSTED, !.is_posted = TRUE]>>]
            /\ UNCHANGED wupd
       ELSE /\ row_lock_granted(p, target[p])
            /\ wupd' = [wupd EXCEPT ![p] =
                          (target[p] :> [transactions[target[p]] EXCEPT
                                            !.status = POSTED, !.is_posted = TRUE,
                                            !.journal_entries =
                                                IF transactions[target[p]].is_posted
                                                THEN <<>> ELSE @]) @@ wupd[p]]
            /\ UNCHANGED wnew
    /\ pc' = [pc EXCEPT ![p] = IF PostingItems(p) = <<>> THEN "commit" ELSE "balances"]
    /\ UNCHANGED <<opening_balance, current_balance, transactions, op, target, obj,
                   cursor, wbal>>
    /\ result' = "none"

\* variant: a save that writes the status and leaves is_posted
post_transaction_save_status_only(p) ==
    /\ pc[p] = "save"
    /\ IF op[p] = "void"
       THEN /\ wnew' = [wnew EXCEPT ![p] = <<[wnew[p][1] EXCEPT !.status = POSTED]>>]
            /\ UNCHANGED wupd
       ELSE /\ row_lock_granted(p, target[p])
            /\ wupd' = [wupd EXCEPT ![p] =
                          (target[p] :> [transactions[target[p]] EXCEPT
                                            !.status = POSTED]) @@ wupd[p]]
            /\ UNCHANGED wnew
    /\ pc' = [pc EXCEPT ![p] = IF PostingItems(p) = <<>> THEN "commit" ELSE "balances"]
    /\ UNCHANGED <<opening_balance, current_balance, transactions, op, target, obj,
                   cursor, wbal>>
    /\ result' = "none"

\* status = POSTED, is_posted = True, transaction.save()
post_transaction_save(p) ==
    /\ pc[p] = "save"
    /\ IF op[p] = "void"
       THEN /\ wnew' = [wnew EXCEPT ![p] =
                          <<[wnew[p][1] EXCEPT !.status = POSTED, !.is_posted = TRUE]>>]
            /\ UNCHANGED wupd
       ELSE /\ row_lock_granted(p, target[p])
            /\ wupd' = [wupd EXCEPT ![p] =
                          (target[p] :> [transactions[target[p]] EXCEPT
                                            !.status = POSTED, !.is_posted = TRUE]) @@ wupd[p]]
            /\ UNCHANGED wnew
    /\ pc' = [pc EXCEPT ![p] = IF PostingItems(p) = <<>> THEN "commit" ELSE "balances"]
    /\ UNCHANGED <<opening_balance, current_balance, transactions, op, target, obj,
                   cursor, wbal>>
    /\ result' = "none"

\* the new current_balance of the item's account
updated_balance(item, balance) ==
    IF is_debit_balance(item.account)
    THEN balance + item.debit_amount - item.credit_amount
    ELSE balance + item.credit_amount - item.debit_amount

\* one iteration of the loop of _update_account_balances
update_account_balances(p) ==
    /\ pc[p] = "balances"
    /\ LET item == PostingItems(p)[cursor[p] + 1]
           a == item.account
       IN  /\ select_for_update(p, a)
           /\ wbal' = [wbal EXCEPT ![p] =
                         (a :> updated_balance(item, WorkingBalances(p)[a])) @@ wbal[p]]
    /\ cursor' = [cursor EXCEPT ![p] = cursor[p] + 1]
    /\ pc' = [pc EXCEPT ![p] = IF cursor[p] + 1 = Len(PostingItems(p))
                               THEN "commit" ELSE "balances"]
    /\ UNCHANGED <<opening_balance, current_balance, transactions, op, target, obj,
                   wnew, wupd>>
    /\ result' = "none"

\* audit log, notification and return True; inside void_transaction the
\* original is then marked VOIDED (save(update_fields=['status'])) and the
\* reversal returned.  The outermost atomic block commits.
post_transaction_commit(p) ==
    /\ pc[p] = "commit"
    /\ IF op[p] = "void"
       THEN /\ row_lock_granted(p, target[p])
            /\ Finish(p, "voided",
                      [t \in 1..Len(transactions) |->
                          IF t = target[p] THEN [transactions[t] EXCEPT !.status = VOIDED]
                          ELSE transactions[t]] \o wnew[p],
                      WorkingBalances(p))
       ELSE Finish(p, "posted", WorkingTransactions(p), WorkingBalances(p))
    /\ UNCHANGED opening_balance

\* variant: the error leaves the writes made so far in the store
post_transaction_error_keeps_work(p) ==
    /\ pc[p] \in {"save", "balances"}
    /\ transactions' = WorkingTransactions(p)
    /\ current_balance' = WorkingBalances(p)
    /\ wnew' = [wnew EXCEPT ![p] = <<>>]
    /\ wupd' = [wupd EXCEPT ![p] = Empty]
    /\ wbal' = [wbal EXCEPT ![p] = Empty]
    /\ pc' = [pc EXCEPT ![p] = "idle"]
    /\ op' = [op EXCEPT ![p] = "none"]
    /\ target' = [target EXCEPT ![p] = 0]
    /\ obj' = [obj EXCEPT ![p] = NoObj]
    /\ cursor' = [cursor EXCEPT ![p] = 0]
    /\ result' = "failed_to_post"
    /\ UNCHANGED opening_balance

\* transaction.save() or the locked read-modify-write of an Account raises
\* (persistence error, lock timeout): `except Exception` re-raises it as a
\* ValidationError after the atomic block has rolled back.
post_transaction_error(p) ==
    /\ pc[p] \in {"save", "balances"}
    /\ Finish(p, "failed_to_post", WorkingTransactions(p), WorkingBalances(p))
    /\ UNCHANGED opening_balance

\* --------------------------------------------------------- void_transaction
RECURSIVE SwapItems(_)
\* debit_amount=item.credit_amount, credit_amount=item.debit_amount
SwapItems(items) ==
    IF items = <<>> THEN <<>>
    ELSE <<Item(Head(items).account, Head(items).credit_amount, Head(items).debit_amount)>>
         \o SwapItems(Tail(items))

\* variant: a reversal built with JournalEntry.objects.create, which completes
reverse_transaction_completes(txn) ==
    [row |-> NewTransaction([e \in DOMAIN txn.journal_entries |->
                                Entry(SwapItems(txn.journal_entries[e].items))]),
     raised |-> FALSE]

\* Transaction.reverse_transaction: the reversal row is inserted first; the
\* loop over the original's journal entries then calls
\* entry.journalentry_set.create(...), an attribute JournalEntry does not
\* have, so the first iteration raises AttributeError.
reverse_transaction(txn) ==
    [row |-> NewTransaction(<<>>), raised |-> txn.journal_entries # <<>>]

\* variant: voiding without the is_posted check
void_transaction_checks_no_posted_check(loaded) ==
    IF loaded.status = VOIDED THEN "already_voided" ELSE "ok"

\* the two precondition checks on the caller's Transaction object: the error
\* raised, or "ok"
void_transaction_checks(loaded) ==
    IF ~loaded.is_posted THEN "not_posted"
    ELSE IF loaded.status = VOIDED THEN "already_voided"
    ELSE "ok"

\* The caller loads the Transaction and calls the service: the precondition
\* checks, reverse_transaction, and the validation and is_posted check of
\* post_transaction(reversal), all reads of data no call writes.
void_transaction_begin(p, t) ==
    /\ pc[p] = "idle"
    /\ t \in 1..Len(transactions)
    /\ LET checks == void_transaction_checks(transactions[t])
           rev == reverse_transaction(transactions[t])
           posting == post_transaction_checks(rev.row, rev.row)
       IN  IF checks # "ok"
           THEN Finish(p, checks, WorkingTransactions(p), WorkingBalances(p))
           ELSE /\ TotalRows <= MaxTxn    \* the reversal in flight is not counted
                /\ IF rev.raised \/ posting # "ok"
                   THEN Finish(p, IF rev.raised THEN "failed_to_void" ELSE posting,
                               WorkingTransactions(p) \o <<rev.row>>, WorkingBalances(p))
                   ELSE /\ pc' = [pc EXCEPT ![p] = "save"]
                        /\ op' = [op EXCEPT ![p] = "void"]
                        /\ target' = [target EXCEPT ![p] = t]
                        /\ obj' = [obj EXCEPT ![p] = [status |-> transactions[t].status,
                                                      is_posted |-> transactions[t].is_posted]]
                        /\ wnew' = [wnew EXCEPT ![p] = <<rev.row>>]
                        /\ UNCHANGED <<current_balance, transactions, cursor, wupd, wbal>>
                        /\ result' = "none"
    /\ UNCHANGED opening_balance

\* ------------------------------------------------------------ lock waits
\* the Account row the next step of p selects FOR UPDATE
WantedAccount(p) == PostingItems(p)[cursor[p] + 1].account

\* p waits for a row lock that q holds
WaitsFor(p, q) ==
    /\ p # q
    /\ \/ pc[p] = "balances" /\ WantedAccount(p) \in DOMAIN wbal[q]
       \/ pc[p] = "save" /\ op[p] = "post" /\ target[p] \in DOMAIN wupd[q]
       \/ pc[p] = "commit" /\ op[p] = "void" /\ target[p] \in DOMAIN wupd[q]

RECURSIVE WaitClosure(_)
WaitClosure(S) ==
    LET N == S \cup {r \in Procs : \E q \in S : WaitsFor(q, r)}
    IN  IF N = S THEN S ELSE WaitClosure(N)

Deadlocked(p) == p \in WaitClosure({q \in Procs : WaitsFor(p, q)})

\* variant: a store that never breaks a cycle of lock waits
deadlock_never_detected(p) == FALSE /\ UNCHANGED vars

\* The store finds p in a cycle of lock waits and aborts its statement with
\* an error; `except Exception` turns it into a ValidationError after rollback.
deadlock_abort(p) ==
    /\ Deadlocked(p)
    /\ Finish(p, "deadlock", WorkingTransactions(p), WorkingBalances(p))
    /\ UNCHANGED opening_balance

\* ------------------------------------------------------------ specification
\* Accounts as created: opening_balance as given, current_balance either left
\* at the field default or set to the opening balance by the creator.
Init ==
    /\ opening_balance = [a \in Accounts |-> IF a = "Cash" THEN OpeningCash
                                              ELSE IF a = "Capital" THEN OpeningCapital
                                              ELSE 0]
    /\ current_balance \in {[a \in Accounts |-> DefaultCurrentBalance], opening_balance}
    /\ transactions = <<>>
    /\ pc = [p \in Procs |-> "idle"]
    /\ op = [p \in Procs |-> "none"]
    /\ target = [p \in Procs |-> 0]
    /\ obj = [p \in Procs |-> NoObj]
    /\ cursor = [p \in Procs |-> 0]
    /\ wnew = [p \in Procs |-> <<>>]
    /\ wupd = [p \in Procs |-> Empty]
    /\ wbal = [p \in Procs |-> Empty]
    /\ result = "none"

Next ==
    \E p \in Procs :
        \/ \E data \in JournalEntriesData : create_transaction(p, data)
        \/ \E data \in StoredData : objects_create(p, data)
        \/ \E t \in 1..MaxTxn : post_transaction_begin(p, t)
        \/ post_transaction_save(p)
        \/ update_account_balances(p)
        \/ post_transaction_commit(p)
        \/ post_transaction_error(p)
        \/ \E t \in 1..MaxTxn : void_transaction_begin(p, t)
        \/ deadlock_abort(p)

Spec == Init /\ [][Next]_vars

Outcomes ==
    Returned \cup
    {"none", "create_no_entries", "create_no_items", "create_invalid", "post_invalid",
     "already_posted", "failed_to_post", "deadlock", "not_posted", "already_voided",
     "failed_to_void"}

TypeOK ==
    /\ pc \in [Procs -> {"idle", "save", "balances", "commit"}]
    /\ op \in [Procs -> {"none", "post", "void"}]
    /\ result \in Outcomes
    /\ target \in [Procs -> 0..MaxTxn]
    /\ Len(transactions) <= MaxTxn
    /\ \A t \in 1..Len(transactions) : transactions[t].status \in {DRAFT, PENDING, POSTED, VOIDED}


\* ------------------------------------------------- vocabulary of the claims
RECURSIVE DebitsOn(_, _)
\* sum of the debit amounts of the items on account a
DebitsOn(items, a) ==
    IF items = <<>> THEN 0
    ELSE (IF Head(items).account = a THEN Head(items).debit_amount ELSE 0)
         + DebitsOn(Tail(items), a)

RECURSIVE CreditsOn(_, _)
\* sum of the credit amounts of the items on account a
CreditsOn(items, a) ==
    IF items = <<>> THEN 0
    ELSE (IF Head(items).account = a THEN Head(items).credit_amount ELSE 0)
         + CreditsOn(Tail(items), a)

RECURSIVE SumOver(_, _)
SumOver(f, S) ==
    IF S = {} THEN 0 ELSE LET x == CHOOSE y \in S : TRUE IN f[x] + SumOver(f, S \ {x})

ItemsOf(txn) == Flatten(txn.journal_entries)
TotalDebit(txn) == SumOver([a \in Accounts |-> DebitsOn(ItemsOf(txn), a)], Accounts)
TotalCredit(txn) == SumOver([a \in Accounts |-> CreditsOn(ItemsOf(txn), a)], Accounts)

\* what posting the items adds to account a: debits minus credits on a
\* DEBIT-normal account, credits minus debits on a CREDIT-normal one
EffectOfItems(items, a) ==
    IF balance_type[a] = DEBIT
    THEN DebitsOn(items, a) - CreditsOn(items, a)
    ELSE CreditsOn(items, a) - DebitsOn(items, a)

Effect(txn, a) == EffectOfItems(ItemsOf(txn), a)

Touches(txn, a) == \E i \in DOMAIN ItemsOf(txn) : ItemsOf(txn)[i].account = a

Ids == 1..Len(transactions)

\* this step ends a void_transaction call of p on t
VoidEnds(p, t) ==
    \/ void_transaction_begin(p, t) /\ pc'[p] = "idle"
    \/ op[p] = "void" /\ target[p] = t /\ pc[p] # "idle" /\ pc'[p] = "idle"

\* t is posted and not voided
Voidable(t) == transactions[t].is_posted /\ transactions[t].status = POSTED

\* the errors of the store, as opposed to those of the service
StoreErrors == {"failed_to_post", "deadlock"}

\* ------------------------------------------------------------------ C1
C1_Step ==
    \A t \in Ids :
        TotalDebit(transactions[t]) # TotalCredit(transactions[t]) =>
            /\ transactions'[t].status = POSTED => transactions[t].status = POSTED
            /\ \A p \in Procs : post_transaction_begin(p, t) =>
                  /\ result' = "post_invalid"
                  /\ pc'[p] = "idle"
                  /\ transactions' = transactions

\* C1: post_transaction never moves a transaction whose debit amounts and
\* credit amounts differ to POSTED: the call on it is rejected with a
\* validation error and the transaction stays as it was.
C1_UnbalancedNeverPosted == [][C1_Step]_vars

C1_Witness ==
    /\ result = "post_invalid"
    /\ \E t \in Ids : /\ TotalDebit(transactions[t]) # TotalCredit(transactions[t])
                      /\ transactions[t].status = DRAFT

\* ------------------------------------------------------------------ C2
C2_Step ==
    \A p \in Procs, t \in Ids :
        (transactions[t].is_posted /\ post_transaction_begin(p, t)) =>
            /\ result' = "already_posted"
            /\ pc'[p] = "idle"
            /\ wbal'[p] = Empty
            /\ current_balance' = current_balance
            /\ transactions' = transactions

\* C2: a post_transaction call on a transaction that is already posted raises
\* the already-posted error and changes no account's current_balance.
C2_SecondPostRejected == [][C2_Step]_vars

C2_Witness ==
    /\ result = "already_posted"
    /\ \E t \in Ids : transactions[t].is_posted /\ Effect(transactions[t], "Cash") # 0

\* ------------------------------------------------------------------ C3
C3_Step ==
    \A p \in Procs, t \in Ids :
        (Voidable(t) /\ VoidEnds(p, t) /\ result' \notin StoreErrors) =>
            \A a \in Accounts :
                current_balance'[a] = current_balance[a] - Effect(transactions[t], a)

\* C3: when a void_transaction call on a posted transaction T ends, every
\* account T touches has the balance it had before T was posted, that is its
\* balance less what posting T added to it.
C3_VoidRestoresBalances == [][C3_Step]_vars

\* ------------------------------------------------------------------ C4
C4_Step ==
    \A p \in Procs, t \in Ids :
        (Voidable(t) /\ VoidEnds(p, t) /\ result' \notin StoreErrors) =>
            /\ result' = "voided"
            /\ transactions'[t].status = VOIDED
            /\ transactions'[t].is_posted
            /\ Len(transactions') = Len(transactions) + 1
            /\ transactions'[Len(transactions')].status = POSTED

\* C4: a void_transaction call on a posted, not yet voided transaction
\* succeeds, leaves the original VOIDED with is_posted still True, and adds
\* exactly one new transaction, the reversal, which is POSTED.
C4_VoidSucceeds == [][C4_Step]_vars

\* ------------------------------------------------------------------ C5
RECURSIVE CountEntries(_)
CountEntries(txns) ==
    IF txns = <<>> THEN 0 ELSE Len(Head(txns).journal_entries) + CountEntries(Tail(txns))

RECURSIVE CountItems(_)
CountItems(txns) ==
    IF txns = <<>> THEN 0 ELSE Len(ItemsOf(Head(txns))) + CountItems(Tail(txns))

C5_Step ==
    \A p \in Procs, data \in JournalEntriesData :
        create_transaction(p, data) =>
            /\ (data = <<>> \/ TotalDebit(NewTransaction(data)) # TotalCredit(NewTransaction(data)))
                  => result' \notin Returned
            /\ result' \notin Returned =>
                  /\ Len(transactions') = Len(transactions)
                  /\ CountEntries(transactions') = CountEntries(transactions)
                  /\ CountItems(transactions') = CountItems(transactions)

\* C5: create_transaction raises on data without journal entries or with
\* unbalanced items, and whenever it raises the numbers of Transaction,
\* JournalEntry and JournalItem rows are what they were before the call.
C5_FailedCreatePersistsNothing == [][C5_Step]_vars

C5_Witness ==
    /\ result \in {"create_invalid", "create_no_entries", "create_no_items"}
    /\ transactions = <<>>

\* ------------------------------------------------------------------ C6
\* the committed state is changed by the commit of a post_transaction of p
PostCommits(p) ==
    /\ op[p] = "post" /\ pc[p] = "commit" /\ pc'[p] = "idle"
    /\ result' = "posted"
    /\ transactions'[target[p]].status = POSTED
    /\ transactions'[target[p]].is_posted
    /\ cursor[p] = Len(PostingItems(p))
    /\ current_balance' = WorkingBalances(p)
    /\ \A t \in Ids \ {target[p]} : transactions'[t] = transactions[t]

\* the committed state is changed by the insert of an unposted transaction
DraftInserted ==
    /\ transactions' = Append(transactions, transactions'[Len(transactions')])
    /\ ~transactions'[Len(transactions')].is_posted
    /\ current_balance' = current_balance

C6_Step ==
    (transactions' # transactions \/ current_balance' # current_balance)
        => (DraftInserted \/ \E p \in Procs : PostCommits(p))

\* C6: the committed transactions and balances change only when a
\* post_transaction returns, and then the status is POSTED and the balance
\* updates of all its items are committed together; a post_transaction that
\* fails at validation, at the save or at a balance update leaves the committed
\* status, is_posted and every current_balance as they were.
C6_PostAllOrNothing == [][C6_Step]_vars

C6_Witness == result = "deadlock" /\ \E t \in Ids : transactions[t].status = DRAFT

\* ------------------------------------------------------------------ C7
C7_Step ==
    \A p \in Procs, t \in Ids :
        (VoidEnds(p, t) /\ result' \notin Returned) =>
            /\ transactions' = transactions
            /\ current_balance' = current_balance
            /\ transactions[t].status # VOIDED => transactions'[t].status # VOIDED

\* C7: when void_transaction fails while creating or posting the reversal
\* (or at its precondition checks), no reversal row and no status change of
\* the original is committed.
C7_FailedVoidPersistsNothing == [][C7_Step]_vars

C7_Witness ==
    /\ result = "failed_to_void"
    /\ \E t \in Ids : Voidable(t)

\* ------------------------------------------------------------------ C8
C8_Step ==
    \A p \in Procs :
        (op[p] = "post" /\ pc[p] = "commit" /\ pc'[p] = "idle" /\ result' = "posted") =>
            \A a \in Accounts :
                current_balance'[a] = current_balance[a] + Effect(transactions[target[p]], a)

C10_Step ==
    \A p \in Procs :
        (op[p] = "post" /\ pc[p] = "commit" /\ pc'[p] = "idle" /\ result' = "posted") =>
            \A a \in Accounts :
                (/\ Touches(transactions[target[p]], a)
                 /\ \A t \in Ids : transactions[t].is_posted => ~Touches(transactions[t], a))
                => current_balance'[a] = opening_balance[a] + Effect(transactions[target[p]], a)

\* C10: after the first successful post_transaction that touches an account,
\* its current_balance is its opening balance plus debits minus credits of the
\* transaction (DEBIT-normal) or plus credits minus debits (CREDIT-normal).
C10_FirstPostFromOpening == [][C10_Step]_vars

\* ------------------------------------------------------------------ C9
\* Drafts that move money between Cash and Capital, in both item orders.
TransferData ==
    { <<Entry(<<Dr("Cash", 1), Cr("Capital", 1)>>)>>,
      <<Entry(<<Cr("Capital", 1), Dr("Cash", 1)>>)>> }

\* The store holds MaxTxn such drafts and the callers only post.
LiveInit ==
    /\ opening_balance = [a \in Accounts |->
           IF a = "Cash" THEN OpeningCash ELSE IF a = "Capital" THEN OpeningCapital ELSE 0]
    /\ current_balance \in {[a \in Accounts |-> DefaultCurrentBalance], opening_balance}
    /\ transactions \in [1..MaxTxn -> {NewTransaction(d) : d \in TransferData}]
    /\ pc = [p \in Procs |-> "idle"]
    /\ op = [p \in Procs |-> "none"]
    /\ target = [p \in Procs |-> 0]
    /\ obj = [p \in Procs |-> NoObj]
    /\ cursor = [p \in Procs |-> 0]
    /\ wnew = [p \in Procs |-> <<>>]
    /\ wupd = [p \in Procs |-> Empty]
    /\ wbal = [p \in Procs |-> Empty]
    /\ result = "none"

LiveNext ==
    \E p \in Procs :
        \/ \E t \in 1..MaxTxn : post_transaction_begin(p, t)
        \/ post_transaction_save(p)
        \/ update_account_balances(p)
        \/ post_transaction_commit(p)
        \/ post_transaction_error(p)
        \/ deadlock_abort(p)

\* A caller that can take its next step takes it; a caller queued for a row
\* lock gets the lock once it is free often enough (the store serves waiters
\* in turn); the store's detector ends a wait cycle.
Fairness ==
    \A p \in Procs :
        /\ SF_vars(post_transaction_save(p))
        /\ SF_vars(update_account_balances(p))
        /\ WF_vars(post_transaction_commit(p))
        /\ WF_vars(deadlock_abort(p))

LiveSpec == LiveInit /\ [][LiveNext]_vars /\ Fairness

NoDate == -1

\* the amount a journal item adds in get_balance, update_balance and the
\* reports: `if item.debit_amount > 0: += debit_amount  else: -= credit_amount`
signed_amount(item) ==
    IF item.debit_amount > 0 THEN item.debit_amount ELSE -item.credit_amount

RECURSIVE SumSigned(_)
SumSigned(items) ==
    IF items = <<>> THEN 0 ELSE signed_amount(Head(items)) + SumSigned(Tail(items))

RECURSIVE SelectOn(_, _)
SelectOn(items, a) ==
    IF items = <<>> THEN <<>>
    ELSE (IF Head(items).account = a THEN <<Head(items)>> ELSE <<>>) \o SelectOn(Tail(items), a)

RECURSIVE posted_items(_, _, _, _)
\* JournalItem.objects.filter(account=a, ...transaction_date__gte=start_date,
\* ...transaction_date__lte=end_date, ...is_posted=True); NoDate leaves the
\* bound out of the filter
posted_items(txns, a, start_date, end_date) ==
    IF txns = <<>> THEN <<>>
    ELSE LET txn == Head(txns)
             selected ==
                 /\ txn.is_posted
                 /\ start_date = NoDate \/ txn.transaction_date >= start_date
                 /\ end_date = NoDate \/ txn.transaction_date <= end_date
         IN (IF selected THEN SelectOn(Flatten(txn.journal_entries), a) ELSE <<>>)
            \o posted_items(Tail(txns), a, start_date, end_date)

\* variant: a balance that takes the posted items of every date
get_balance_of_all_dates(txns, a, as_of_date) ==
    LET balance == opening_balance[a] + SumSigned(posted_items(txns, a, NoDate, NoDate))
    IN IF balance_type[a] = CREDIT THEN -balance ELSE balance

\* Account.get_balance(as_of_date) on the ledger txns
get_balance(txns, a, as_of_date) ==
    LET balance == opening_balance[a] + SumSigned(posted_items(txns, a, NoDate, as_of_date))
    IN IF balance_type[a] = CREDIT THEN -balance ELSE balance

\* ------------------------------------------------------------------ C11
C11_Step ==
    \A p \in Procs :
        (op[p] = "post" /\ pc[p] = "commit" /\ pc'[p] = "idle" /\ result' = "posted") =>
            \A a \in Accounts :
                Touches(transactions[target[p]], a) =>
                    current_balance'[a] = get_balance(transactions', a, NoDate)

\* C11: after every post_transaction that returns, each account the
\* transaction touches has current_balance equal to get_balance(account)
\* recomputed from opening_balance and the posted journal items.
C11_CacheEqualsRecomputed == [][C11_Step]_vars

\* ------------------------------------------------------------------ C12
C12_Step ==
    /\ \A t \in Ids :
          \/ transactions'[t].status = transactions[t].status
          \/ transactions[t].status = DRAFT /\ transactions'[t].status = POSTED
          \/ transactions[t].status = POSTED /\ transactions'[t].status = VOIDED
    /\ \A t \in (Len(transactions) + 1)..Len(transactions') :
          transactions'[t].status = DRAFT
    /\ \A p \in Procs, t \in Ids :
          (void_transaction_begin(p, t) /\ ~transactions[t].is_posted) =>
              /\ result' = "not_posted"
              /\ transactions' = transactions

\* C12: a persisted status only moves DRAFT -> POSTED -> VOIDED: rows are
\* created DRAFT, a DRAFT row only becomes POSTED, a POSTED row only VOIDED, a
\* VOIDED row keeps its status, and void_transaction on a transaction that was
\* never posted is rejected.
C12_StatusOrder == [][C12_Step]_vars

C12_Witness ==
    /\ result = "not_posted"
    /\ \E t \in Ids : transactions[t].status = POSTED
    /\ \E t \in Ids : transactions[t].status = DRAFT

\* ------------------------------------------------------------- the reports
RECURSIVE dated_items(_, _, _, _)
\* the posted items on account a dated start_date..end_date, as
\* .order_by('journal_entry__transaction__transaction_date', 'created_at')
\* returns them, each with the date of its transaction
dated_items(txns, a, start_date, end_date) ==
    IF start_date > end_date THEN <<>>
    ELSE LET items == posted_items(txns, a, start_date, start_date)
         IN [i \in 1..Len(items) |-> [date |-> start_date, item |-> items[i]]]
            \o dated_items(txns, a, start_date + 1, end_date)

RECURSIVE ledger_entries(_, _)
\* the loop of generate_general_ledger over the journal items
ledger_entries(dated, running_balance) ==
    IF dated = <<>> THEN <<>>
    ELSE LET item == Head(dated).item
             balance == running_balance + signed_amount(item)
         IN <<[date |-> Head(dated).date,
               debit |-> item.debit_amount,
               credit |-> item.credit_amount,
               balance |-> balance]>>
            \o ledger_entries(Tail(dated), balance)

\* ReportGenerator._calculate_period_activity
calculate_period_activity(txns, a, start_date, end_date) ==
    SumSigned(posted_items(txns, a, start_date, end_date))

\* Account.objects.filter(account_type__code=code, is_active=True)
accounts_by_type(code) == {a \in Accounts : account_type[a] = code /\ is_active[a]}

\* ReportGenerator._get_account_balances_by_type
get_account_balances_by_type(txns, code, as_of_date) ==
    [a \in accounts_by_type(code) |-> get_balance(txns, a, as_of_date)]

\* ReportGenerator._get_account_balances_by_type_for_period
get_account_balances_by_type_for_period(txns, code, start_date, end_date) ==
    [a \in accounts_by_type(code) |-> calculate_period_activity(txns, a, start_date, end_date)]

\* ReportGenerator._get_all_account_balances
get_all_account_balances(txns, as_of_date) ==
    [a \in {x \in Accounts : is_active[x]} |->
        LET balance == get_balance(txns, a, as_of_date)
        IN IF is_debit_balance(a)
           THEN [debit_balance |-> IF balance > 0 THEN balance ELSE 0, credit_balance |-> 0]
           ELSE [debit_balance |-> 0, credit_balance |-> IF balance > 0 THEN balance ELSE 0]]

RECURSIVE sum(_)
\* sum(account['balance'] for account in balances)
sum(f) ==
    IF DOMAIN f = {} THEN 0
    ELSE LET x == CHOOSE y \in DOMAIN f : TRUE
         IN f[x] + sum([y \in DOMAIN f \ {x} |-> f[y]])

\* no report requested yet
NoReport == [report_type |-> "NONE"]

\* A report call changes nothing but what it returns.  Each behaviour serves
\* one request from the stored ledger: a report changes nothing a later
\* report reads.
Returns(report) ==
    /\ result = NoReport
    /\ result' = report
    /\ UNCHANGED <<opening_balance, current_balance, transactions, pc, op, target, obj,
                   cursor, wnew, wupd, wbal>>

\* AccountViewSet.balance: account.get_balance(as_of_date)
balance(a, as_of_date) ==
    /\ a \in Accounts
    /\ Returns([report_type |-> "BALANCE",
                account |-> a,
                as_of_date |-> as_of_date,
                balance |-> get_balance(transactions, a, as_of_date)])

generate_balance_sheet(as_of_date) ==
    /\ as_of_date # NoDate
    /\ LET assets == get_account_balances_by_type(transactions, "ASSET", as_of_date)
           liabilities == get_account_balances_by_type(transactions, "LIABILITY", as_of_date)
           equity == get_account_balances_by_type(transactions, "EQUITY", as_of_date)
       IN Returns([report_type |-> "BALANCE_SHEET",
                   as_of_date |-> as_of_date,
                   assets |-> assets,
                   liabilities |-> liabilities,
                   equity |-> equity,
                   total_assets |-> sum(assets),
                   total_liabilities |-> sum(liabilities),
                   total_equity |-> sum(equity)])

generate_income_statement(start_date, end_date) ==
    /\ start_date # NoDate /\ end_date # NoDate
    /\ LET revenue == get_account_balances_by_type_for_period(transactions, "REVENUE", start_date, end_date)
           expenses == get_account_balances_by_type_for_period(transactions, "EXPENSE", start_date, end_date)
       IN Returns([report_type |-> "INCOME_STATEMENT",
                   start_date |-> start_date,
                   end_date |-> end_date,
                   revenue |-> revenue,
                   expenses |-> expenses,
                   total_revenue |-> sum(revenue),
                   total_expenses |-> sum(expenses),
                   net_income |-> sum(revenue) - sum(expenses)])

generate_trial_balance(as_of_date) ==
    /\ as_of_date # NoDate
    /\ LET accounts == get_all_account_balances(transactions, as_of_date)
           total_debits == sum([a \in DOMAIN accounts |-> accounts[a].debit_balance])
           total_credits == sum([a \in DOMAIN accounts |-> accounts[a].credit_balance])
       IN Returns([report_type |-> "TRIAL_BALANCE",
                   as_of_date |-> as_of_date,
                   accounts |-> accounts,
                   total_debits |-> total_debits,
                   total_credits |-> total_credits,
                   difference |-> total_debits - total_credits])

generate_general_ledger(a, start_date, end_date) ==
    /\ start_date # NoDate /\ end_date # NoDate
    /\ LET running_balance == get_balance(transactions, a, start_date - 1)
       IN Returns([report_type |-> "GENERAL_LEDGER",
                   account |-> a,
                   start_date |-> start_date,
                   end_date |-> end_date,
                   opening_balance |-> running_balance,
                   closing_balance |-> get_balance(transactions, a, end_date),
                   entries |-> ledger_entries(dated_items(transactions, a, start_date, end_date),
                                              running_balance)])

\* ------------------------------------------- the reports' specification
\* a stored transaction with its date, posted by post_transaction or not
LedgerRow(data, date, posted) ==
    [status |-> IF posted THEN POSTED ELSE DRAFT,
     is_posted |-> posted,
     journal_entries |-> data,
     transaction_date |-> date]

\* owner's investment, a cash sale, rent paid in cash
InvestData == <<Entry(<<Dr("Cash", MaxAmount), Cr("Capital", MaxAmount)>>)>>
SaleData == <<Entry(<<Dr("Cash", MaxAmount), Cr("Sales", MaxAmount)>>)>>
RentData == <<Entry(<<Dr("Rent", 1), Cr("Cash", 1)>>)>>

LedgerRows ==
    { LedgerRow(data, date, TRUE) : data \in {InvestData, SaleData, RentData}, date \in 1..MaxDate }
    \cup { LedgerRow(SaleData, date, FALSE) : date \in 1..MaxDate }

RECURSIVE balances_after(_, _)
\* the current_balance that _update_account_balances leaves after the posts
\* of the ledger's posted transactions, in the ledger's order
balances_after(items, balances) ==
    IF items = <<>> THEN balances
    ELSE LET item == Head(items)
         IN balances_after(Tail(items),
                [balances EXCEPT ![item.account] = updated_balance(item, balances[item.account])])

RECURSIVE all_posted_items(_)
all_posted_items(txns) ==
    IF txns = <<>> THEN <<>>
    ELSE (IF Head(txns).is_posted THEN Flatten(Head(txns).journal_entries) ELSE <<>>)
         \o all_posted_items(Tail(txns))

\* accounts opened as in the tests' setUp, or with no opening balance
OpeningBalances ==
    { [a \in Accounts |-> 0],
      [a \in Accounts |->
          IF a = "Cash" THEN OpeningCash ELSE IF a = "Capital" THEN OpeningCapital ELSE 0] }

ReportInit ==
    /\ opening_balance \in OpeningBalances
    /\ transactions \in [1..MaxTxn -> LedgerRows]
    /\ \E start \in {[a \in Accounts |-> DefaultCurrentBalance], opening_balance} :
          current_balance = balances_after(all_posted_items(transactions), start)
    /\ pc = [p \in Procs |-> "idle"]
    /\ op = [p \in Procs |-> "none"]
    /\ target = [p \in Procs |-> 0]
    /\ obj = [p \in Procs |-> NoObj]
    /\ cursor = [p \in Procs |-> 0]
    /\ wnew = [p \in Procs |-> <<>>]
    /\ wupd = [p \in Procs |-> Empty]
    /\ wbal = [p \in Procs |-> Empty]
    /\ result = NoReport

\* the accounts and days the reports are asked for
Dates == 1..MaxDate
LedgerAccounts == {"Cash", "Capital"}

ReportNext ==
    \/ \E a \in Accounts, d \in Dates \cup {NoDate} : balance(a, d)
    \/ \E d \in Dates : generate_balance_sheet(d)
    \/ \E d \in Dates : generate_income_statement(d, MaxDate)
    \/ \E d \in Dates : generate_trial_balance(d)
    \/ \E a \in LedgerAccounts, d \in Dates : generate_general_ledger(a, d, MaxDate)

ReportSpec == ReportInit /\ [][ReportNext]_vars

\* ------------------------------------- vocabulary of the report claims
RECURSIVE NetDebits(_, _, _, _)
\* debit amounts minus credit amounts of the items on account a whose
\* transaction is posted and dated from..to (NoDate: no bound)
NetDebits(txns, a, from, to) ==
    IF txns = <<>> THEN 0
    ELSE LET txn == Head(txns)
             counted ==
                 /\ txn.is_posted
                 /\ from = NoDate \/ txn.transaction_date >= from
                 /\ to = NoDate \/ txn.transaction_date <= to
         IN (IF counted THEN DebitsOn(ItemsOf(txn), a) - CreditsOn(ItemsOf(txn), a) ELSE 0)
            + NetDebits(Tail(txns), a, from, to)

Abs(n) == IF n < 0 THEN -n ELSE n

HasPostedItems(a) == \E t \in Ids : transactions[t].is_posted /\ Touches(transactions[t], a)

C14_NoItemsGivesOpening ==
    (result.report_type = "BALANCE" /\ ~HasPostedItems(result.account)) =>
        result.balance = opening_balance[result.account]

\* ------------------------------------------------------------------ C15
\* C15: generate_trial_balance returns total_debits equal to total_credits,
\* for any ledger.
C15_TrialBalanceBalances ==
    result.report_type = "TRIAL_BALANCE" =>
        /\ result.total_debits = result.total_credits
        /\ result.difference = 0

\* ------------------------------------------------------------------ C16
\* C16: the running balance on a general ledger entry (the last of its day)
\* equals get_balance(account, the entry's transaction date).
C16_RunningBalanceIsBalance ==
    result.report_type = "GENERAL_LEDGER" =>
        \A i \in DOMAIN result.entries :
            (i = Len(result.entries) \/ result.entries[i + 1].date # result.entries[i].date) =>
                result.entries[i].balance
                    = get_balance(transactions, result.account, result.entries[i].date)

\* ------------------------------------------------------------------ C17
\* C17: with zero opening balances and balanced posted transactions the
\* balance sheet has total_assets = total_liabilities + total_equity.
C17_BalanceSheetBalances ==
    (result.report_type = "BALANCE_SHEET" /\ \A a \in Accounts : opening_balance[a] = 0) =>
        result.total_assets = result.total_liabilities + result.total_equity

\* ------------------------------------------------------------------ C18
RevenueEarned(from, to) ==
    SumOver([a \in Accounts |->
                IF account_type[a] = "REVENUE" THEN -NetDebits(transactions, a, from, to) ELSE 0],
            Accounts)

ExpensesIncurred(from, to) ==
    SumOver([a \in Accounts |->
                IF account_type[a] = "EXPENSE" THEN NetDebits(transactions, a, from, to) ELSE 0],
            Accounts)

\* C18: the net_income of generate_income_statement has the magnitude of the
\* revenue earned in the period (credits minus debits on REVENUE accounts)
\* minus the expenses incurred in it (debits minus credits on EXPENSE accounts).
C18_NetIncome ==
    result.report_type = "INCOME_STATEMENT" =>
        Abs(result.net_income)
            = Abs(RevenueEarned(result.start_date, result.end_date)
                  - ExpensesIncurred(result.start_date, result.end_date))

\* ------------------------------------------- drafts stored unvalidated
\* Journals of drafts inserted through the ORM, each balanced in total and per
\* entry: a transfer, an item with both amounts, items with neither, items
\* with negative amounts, and items on accounts that cannot be posted to.
DraftData ==
    { <<Entry(<<Dr("Cash", MaxAmount), Cr("Capital", MaxAmount)>>)>>,
      <<Entry(<<Item("Cash", 1, 1)>>)>>,
      <<Entry(<<Item("Cash", 0, 0), Item("Capital", 0, 0)>>)>>,
      <<Entry(<<Cr("Capital", -1), Dr("Cash", -1)>>)>>,
      <<Entry(<<Dr("Restricted", 1), Cr("Capital", 1)>>)>>,
      <<Entry(<<Dr("Closed", 1), Cr("Capital", 1)>>)>>,
      <<Entry(<<Dr("Removed", 1), Cr("Capital", 1)>>)>> }

\* The store holds MaxTxn - 1 such drafts; the callers create and post.
DraftInit ==
    /\ opening_balance = [a \in Accounts |->
           IF a = "Cash" THEN OpeningCash ELSE IF a = "Capital" THEN OpeningCapital ELSE 0]
    /\ current_balance \in {[a \in Accounts |-> DefaultCurrentBalance], opening_balance}
    /\ transactions \in [1..(MaxTxn - 1) -> {NewTransaction(d) : d \in DraftData}]
    /\ pc = [p \in Procs |-> "idle"]
    /\ op = [p \in Procs |-> "none"]
    /\ target = [p \in Procs |-> 0]
    /\ obj = [p \in Procs |-> NoObj]
    /\ cursor = [p \in Procs |-> 0]
    /\ wnew = [p \in Procs |-> <<>>]
    /\ wupd = [p \in Procs |-> Empty]
    /\ wbal = [p \in Procs |-> Empty]
    /\ result = "none"

DraftNext ==
    \E p \in Procs :
        \/ \E data \in DraftData : create_transaction(p, data)
        \/ \E t \in 1..MaxTxn : post_transaction_begin(p, t)
        \/ post_transaction_save(p)
        \/ update_account_balances(p)
        \/ post_transaction_commit(p)
        \/ post_transaction_error(p)
        \/ deadlock_abort(p)

DraftSpec == DraftInit /\ [][DraftNext]_vars

\* ------------------------------------------------------------------ C19
ExactlyOneAmount(item) ==
    \/ item.debit_amount > 0 /\ item.credit_amount = 0
    \/ item.debit_amount = 0 /\ item.credit_amount > 0

AllExactlyOne(entries) ==
    \A i \in DOMAIN Flatten(entries) : ExactlyOneAmount(Flatten(entries)[i])

C19_Step ==
    /\ \A p \in Procs, data \in DraftData :
          (create_transaction(p, data) /\ result' = "created") => AllExactlyOne(data)
    /\ \A p \in Procs, t \in Ids :
          (post_transaction_begin(p, t) /\ pc'[p] = "save") =>
              AllExactlyOne(transactions[t].journal_entries)

\* C19: every journal item of a transaction that create_transaction or
\* post_transaction accepts has exactly one of debit_amount and credit_amount
\* strictly positive and the other zero.
C19_ExactlyOneAmount == [][C19_Step]_vars

\* ------------------------------------------------------------------ C20
Postable(a) == is_active[a] /\ allow_posting[a] /\ ~is_deleted[a]

OnUnpostableAccount(txn) ==
    \E i \in DOMAIN ItemsOf(txn) : ~Postable(ItemsOf(txn)[i].account)

C20_Step ==
    \A t \in Ids :
        OnUnpostableAccount(transactions[t]) =>
            /\ transactions'[t] = transactions[t]
            /\ \A p \in Procs : post_transaction_begin(p, t) =>
                  /\ result' = "post_invalid"
                  /\ pc'[p] = "idle"
                  /\ transactions' = transactions
                  /\ current_balance' = current_balance

\* C20: post_transaction never posts a transaction with an item on an account
\* that is inactive, has allow_posting False or is soft-deleted: the call
\* raises a validation error and the transaction stays DRAFT.
C20_UnpostableAccountRejected == [][C20_Step]_vars

C20_Witness ==
    /\ result = "post_invalid"
    /\ \E t \in Ids : /\ transactions[t].status = DRAFT
                      /\ Touches(transactions[t], "Removed")

\* ------------------------------------------------ a ledger with history
\* A Transaction row as the ORM or the transactions endpoint stores it:
\* status and is_posted are plain writable fields there.
StoredRow(data, status, posted) ==
    [NewTransaction(data) EXCEPT !.status = status, !.is_posted = posted]

\* rows of every status, each with the owner's investment as its journal
HistoryRows ==
    { StoredRow(InvestData, DRAFT, FALSE),
      StoredRow(InvestData, PENDING, FALSE),
      StoredRow(InvestData, POSTED, TRUE),
      StoredRow(InvestData, VOIDED, TRUE) }

\* The store holds up to MaxTxn - 1 such rows and the balances their posts
\* left; the callers post and void them.
HistoryInit ==
    /\ opening_balance = [a \in Accounts |->
           IF a = "Cash" THEN OpeningCash ELSE IF a = "Capital" THEN OpeningCapital ELSE 0]
    /\ transactions \in [1..(MaxTxn - 1) -> HistoryRows]
    /\ \E start \in {[a \in Accounts |-> DefaultCurrentBalance], opening_balance} :
          current_balance = balances_after(all_posted_items(transactions), start)
    /\ pc = [p \in Procs |-> "idle"]
    /\ op = [p \in Procs |-> "none"]
    /\ target = [p \in Procs |-> 0]
    /\ obj = [p \in Procs |-> NoObj]
    /\ cursor = [p \in Procs |-> 0]
    /\ wnew = [p \in Procs |-> <<>>]
    /\ wupd = [p \in Procs |-> Empty]
    /\ wbal = [p \in Procs |-> Empty]
    /\ result = "none"

HistoryNext ==
    \E p \in Procs :
        \/ \E t \in 1..MaxTxn : post_transaction_begin(p, t)
        \/ post_transaction_save(p)
        \/ update_account_balances(p)
        \/ post_transaction_commit(p)
        \/ post_transaction_error(p)
        \/ \E t \in 1..MaxTxn : void_transaction_begin(p, t)

HistorySpec == HistoryInit /\ [][HistoryNext]_vars

\* ------------------------------------------------------------------ C21
C21_Step ==
    \A p \in Procs, t \in Ids :
        (/\ void_transaction_begin(p, t)
         /\ (~transactions[t].is_posted \/ transactions[t].status = VOIDED)) =>
            /\ result' = (IF ~transactions[t].is_posted THEN "not_posted" ELSE "already_voided")
            /\ pc'[p] = "idle"
            /\ wnew'[p] = <<>>
            /\ transactions' = transactions
            /\ current_balance' = current_balance

\* C21: void_transaction on a transaction that is not posted, or whose status
\* is already VOIDED, fails with an error, creates no reversal transaction and
\* leaves the status of the transaction and every current_balance unchanged.
C21_VoidPreconditions == [][C21_Step]_vars

C21_Witness ==
    /\ result = "already_voided"
    /\ \E t \in Ids : transactions[t].status = VOIDED /\ transactions[t].is_posted

\* ------------------------------------------------------------------ C23
C23_Step ==
    /\ Len(transactions') >= Len(transactions)
    /\ \A t \in Ids :
          transactions[t].is_posted =>
              /\ transactions'[t].journal_entries = transactions[t].journal_entries
              /\ \A p \in Procs :
                    t \in DOMAIN wupd'[p] =>
                        wupd'[p][t].journal_entries = transactions[t].journal_entries
    /\ \A t \in (1..Len(transactions')) \ Ids :
          \E p \in Procs : op[p] = "void" /\ result' = "voided"

\* C23: post_transaction and void_transaction never modify or delete a journal
\* entry or journal item of an already posted transaction, in the store or in
\* their uncommitted writes; the only rows they add are those of a reversal.
C23_PostedJournalImmutable == [][C23_Step]_vars

C23_Witness ==
    /\ result = "posted"
    /\ \E t \in Ids : /\ transactions[t].status = POSTED
                      /\ transactions[t].journal_entries = InvestData

\* ------------------------------------------------------------------ C29
\* C29: in every state reached through create_transaction, post_transaction
\* and void_transaction a transaction has is_posted True exactly when its
\* status is POSTED or VOIDED (and False exactly when it is DRAFT or PENDING).
C29_StatusMatchesIsPosted ==
    \A t \in Ids : transactions[t].is_posted <=> transactions[t].status \in {POSTED, VOIDED}

C29_Witness ==
    /\ result = "posted"
    /\ \E t \in Ids : transactions[t].status = POSTED /\ transactions[t].is_posted
    /\ \E t \in Ids : transactions[t].status = DRAFT /\ ~transactions[t].is_posted

\* ------------------------------------------------------------------ C27
C27_Step ==
    \A p \in Procs :
        (op[p] = "post" /\ pc[p] = "commit" /\ pc'[p] = "idle" /\ result' = "posted") =>
            /\ ~transactions[target[p]].is_posted
            /\ \A a \in Accounts :
                  current_balance'[a] = current_balance[a] + Effect(transactions[target[p]], a)

\* C27: of two concurrent post_transaction calls on the same unposted
\* transaction at most one succeeds: a call never returns success on a
\* transaction another call has posted meanwhile, so the amounts reach each
\* touched account's current_balance once.
C27_ConcurrentPostOnce == [][C27_Step]_vars

\* ------------------------------------------------------------------ C25
\* rev has one entry per entry of orig, and in it one item per item of the
\* entry, on the same account with the two amounts swapped
Mirrors(rev, orig) ==
    /\ Len(rev.journal_entries) = Len(orig.journal_entries)
    /\ \A e \in DOMAIN orig.journal_entries :
          LET ritems == rev.journal_entries[e].items
              oitems == orig.journal_entries[e].items
          IN  /\ Len(ritems) = Len(oitems)
              /\ \A i \in DOMAIN oitems :
                    /\ ritems[i].account = oitems[i].account
                    /\ ritems[i].debit_amount = oitems[i].credit_amount
                    /\ ritems[i].credit_amount = oitems[i].debit_amount

C25_Step ==
    \A p \in Procs, t \in Ids :
        (Voidable(t) /\ void_transaction_begin(p, t)) =>
            LET rev == reverse_transaction(transactions[t])
            IN  ~rev.raised /\ Mirrors(rev.row, transactions[t])

\* C25: the reversal transaction built when voiding has one journal entry per
\* journal entry of the original and one journal item per original item, on
\* the same account with debit_amount and credit_amount swapped.
C25_ReversalMirrorsOriginal == [][C25_Step]_vars

\* ------------------------------------------------------------------ C28
\* this step commits a void_transaction of p on t
VoidCommits(p, t) ==
    op[p] = "void" /\ target[p] = t /\ pc[p] = "commit" /\ pc'[p] = "idle" /\ result' = "voided"

C28_Step ==
    /\ \A p \in Procs, t \in Ids :
          VoidCommits(p, t) => transactions[t].status = POSTED
    /\ \A t \in Ids :
          (transactions[t].status = POSTED /\ transactions'[t].status = POSTED) =>
              \A p \in Procs : VoidEnds(p, t) =>
                  /\ Len(transactions') = Len(transactions)
                  /\ current_balance' = current_balance
    /\ Len(transactions') <= Len(transactions) + 1

validate_balance(txn) == SumDebits(Flatten(txn.journal_entries)) = SumCredits(Flatten(txn.journal_entries))

\* the checks of Transaction.post_transaction: the error raised, or "ok"
model_post_checks(txn) ==
    IF txn.is_posted THEN "already_posted"
    ELSE IF txn.status = VOIDED THEN "post_voided"
    ELSE IF ~validate_balance(txn) THEN "post_unbalanced"
    ELSE "ok"

\* Transaction.post_transaction(user) up to self.save(): there is no atomic
\* block, so the save commits at once; update_account_balances follows.
model_post_transaction(p, t) ==
    /\ pc[p] = "idle"
    /\ t \in 1..Len(transactions)
    /\ LET checks == model_post_checks(transactions[t])
           items == Flatten(transactions[t].journal_entries)
       IN  IF checks # "ok"
           THEN /\ result' = checks
                /\ UNCHANGED <<transactions, pc, op, target>>
           ELSE /\ row_lock_granted(p, t)
                /\ transactions' = [transactions EXCEPT ![t] =
                                       [@ EXCEPT !.status = POSTED, !.is_posted = TRUE]]
                /\ pc' = [pc EXCEPT ![p] = IF items = <<>> THEN "idle" ELSE "model_balances"]
                /\ op' = [op EXCEPT ![p] = IF items = <<>> THEN "none" ELSE "model_post"]
                /\ target' = [target EXCEPT ![p] = IF items = <<>> THEN 0 ELSE t]
                /\ result' = IF items = <<>> THEN "posted" ELSE "none"
    /\ UNCHANGED <<opening_balance, current_balance, obj, cursor, wnew, wupd, wbal>>

\* one iteration of Transaction.update_account_balances:
\* item.account.update_balance() recomputes the balance from the posted items
\* and saves it
model_update_balance(p) ==
    /\ pc[p] = "model_balances"
    /\ LET items == Flatten(transactions[target[p]].journal_entries)
           a == items[cursor[p] + 1].account
           done == cursor[p] + 1 = Len(items)
       IN  /\ select_for_update(p, a)
           /\ current_balance' = [current_balance EXCEPT ![a] = get_balance(transactions, a, NoDate)]
           /\ cursor' = [cursor EXCEPT ![p] = IF done THEN 0 ELSE cursor[p] + 1]
           /\ pc' = [pc EXCEPT ![p] = IF done THEN "idle" ELSE "model_balances"]
           /\ op' = [op EXCEPT ![p] = IF done THEN "none" ELSE "model_post"]
           /\ target' = [target EXCEPT ![p] = IF done THEN 0 ELSE target[p]]
           /\ result' = IF done THEN "posted" ELSE "none"
    /\ UNCHANGED <<opening_balance, transactions, obj, wnew, wupd, wbal>>

\* Drafts as the ORM stores them: without journal entries, with an entry
\* without items, with a balanced journal.
BareData == { <<>>, <<Entry(<<>>)>>, InvestData }

ModelInit ==
    /\ opening_balance = [a \in Accounts |->
           IF a = "Cash" THEN OpeningCash ELSE IF a = "Capital" THEN OpeningCapital ELSE 0]
    /\ current_balance \in {[a \in Accounts |-> DefaultCurrentBalance], opening_balance}
    /\ transactions \in [1..MaxTxn -> {NewTransaction(d) : d \in BareData}]
    /\ pc = [p \in Procs |-> "idle"]
    /\ op = [p \in Procs |-> "none"]
    /\ target = [p \in Procs |-> 0]
    /\ obj = [p \in Procs |-> NoObj]
    /\ cursor = [p \in Procs |-> 0]
    /\ wnew = [p \in Procs |-> <<>>]
    /\ wupd = [p \in Procs |-> Empty]
    /\ wbal = [p \in Procs |-> Empty]
    /\ result = "none"

\* the callers post through the service or through the model method
ModelNext ==
    \E p \in Procs :
        \/ \E t \in 1..MaxTxn : post_transaction_begin(p, t)
        \/ post_transaction_save(p)
        \/ update_account_balances(p)
        \/ post_transaction_commit(p)
        \/ post_transaction_error(p)
        \/ \E t \in 1..MaxTxn : model_post_transaction(p, t)
        \/ model_update_balance(p)

ModelSpec == ModelInit /\ [][ModelNext]_vars

\* ------------------------------------------------------------------ C30
HasItem(txn) ==
    \E e \in DOMAIN txn.journal_entries : txn.journal_entries[e].items # <<>>

\* C30: no transaction without at least one journal entry that contains at
\* least one journal item is POSTED, whether it was posted through
\* TransactionService.post_transaction or through Transaction.post_transaction.
C30_PostedHasItems ==
    \A t \in Ids : transactions[t].status = POSTED => HasItem(transactions[t])

\* ------------------------------------------------- transaction numbers
\* The steps of create_transaction with the transaction_number of the row:
\* Transaction.save() reads the last number, the INSERT is checked against the
\* unique index, and the atomic block commits after the entries, the items and
\* the validation.  Numbers are modelled by their sequence part, the prefix
\* being the same for all calls of one day.

\* the Transaction rows of the store with their numbers
Numbered(entries, n) == NewTransaction(entries) @@ [transaction_number |-> n]

\* int(last_transaction.transaction_number[-4:])
last_number(n) == n % 10000

RECURSIVE MaxNumber(_)
\* order_by('-transaction_number').first(), 0 when there is none
MaxNumber(txns) ==
    IF txns = <<>> THEN 0
    ELSE LET rest == MaxNumber(Tail(txns))
         IN  IF Head(txns).transaction_number > rest THEN Head(txns).transaction_number ELSE rest

\* Transaction.generate_transaction_number as caller p runs it: p sees the
\* committed rows (its own block has written nothing yet)
generate_transaction_number(p) ==
    IF transactions = <<>> THEN 1 ELSE last_number(MaxNumber(transactions)) + 1

\* calls of create_transaction that have not ended
Creating == {q \in Procs : op[q] = "create"}

\* Transaction.objects.create(...): save() generates the number
create_transaction_number(p, data) ==
    /\ pc[p] = "idle"
    /\ Len(transactions) + Cardinality(Creating) < MaxTxn
    /\ obj' = [obj EXCEPT ![p] = Numbered(data, generate_transaction_number(p))]
    /\ pc' = [pc EXCEPT ![p] = "insert"]
    /\ op' = [op EXCEPT ![p] = "create"]
    /\ UNCHANGED <<opening_balance, current_balance, transactions, target, cursor,
                   wnew, wupd, wbal>>
    /\ result' = "none"

\* The INSERT of the row: it waits while another caller's uncommitted row has
\* the same number, raises IntegrityError when a committed row has it
\* (`except Exception` re-raises it as ValidationError after the rollback),
\* and is followed by the inserts of the entries and items.
create_transaction_insert(p) ==
    /\ pc[p] = "insert"
    /\ \A q \in Procs \ {p} :
          \A i \in DOMAIN wnew[q] : wnew[q][i].transaction_number # obj[p].transaction_number
    /\ IF \E t \in 1..Len(transactions) :
              transactions[t].transaction_number = obj[p].transaction_number
       THEN Finish(p, "failed_to_create", WorkingTransactions(p), current_balance)
       ELSE /\ wnew' = [wnew EXCEPT ![p] = <<obj[p]>>]
            /\ pc' = [pc EXCEPT ![p] = "created"]
            /\ UNCHANGED <<current_balance, transactions, op, target, obj, cursor, wupd, wbal>>
            /\ result' = "none"
    /\ UNCHANGED opening_balance

\* validate_transaction, the audit log and the return: the block commits when
\* the journal is valid and rolls back when it is not
create_transaction_return(p) ==
    /\ pc[p] = "created"
    /\ Finish(p, IF validate_transaction(wnew[p][1]) # {} THEN "create_invalid" ELSE "created",
              WorkingTransactions(p), current_balance)
    /\ UNCHANGED opening_balance

\* the data of the calls: the valid transfers and an unbalanced one
NumberData == ValidData \cup { <<Entry(<<Dr("Cash", MaxAmount), Cr("Capital", 1)>>)>> }

\* The store starts empty; the callers create transactions.
NumberInit ==
    /\ opening_balance = [a \in Accounts |->
           IF a = "Cash" THEN OpeningCash ELSE IF a = "Capital" THEN OpeningCapital ELSE 0]
    /\ current_balance \in {[a \in Accounts |-> DefaultCurrentBalance], opening_balance}
    /\ transactions = <<>>
    /\ pc = [p \in Procs |-> "idle"]
    /\ op = [p \in Procs |-> "none"]
    /\ target = [p \in Procs |-> 0]
    /\ obj = [p \in Procs |-> NoObj]
    /\ cursor = [p \in Procs |-> 0]
    /\ wnew = [p \in Procs |-> <<>>]
    /\ wupd = [p \in Procs |-> Empty]
    /\ wbal = [p \in Procs |-> Empty]
    /\ result = "none"

NumberNext ==
    \E p \in Procs :
        \/ \E data \in NumberData : create_transaction_number(p, data)
        \/ create_transaction_insert(p)
        \/ create_transaction_return(p)

NumberSpec == NumberInit /\ [][NumberNext]_vars

\* ------------------------------------------------------------------ C24
C24_Step ==
    /\ \A p \in Procs :
          (op[p] = "create" /\ pc'[p] = "idle" /\ obj[p].journal_entries \in ValidData) =>
              /\ result' = "created"
              /\ Len(transactions') = Len(transactions) + 1
    /\ \A t, u \in 1..Len(transactions') :
          t # u => transactions'[t].transaction_number # transactions'[u].transaction_number

\* C24: when several create_transaction calls with valid, balanced data run
\* concurrently, every call succeeds and adds one transaction with a
\* transaction_number of its own.
C24_ConcurrentCreatesSucceed == [][C24_Step]_vars

\* ------------------------------------------- failing side-effect writes
\* AuditUtils.log_activity and NotificationUtils.create_notification wrap
\* their objects.create(...) in try/except Exception and log the failure.
\* They run inside the caller's atomic block.  How the write fails decides
\* what the block does at its exit:
\*   "before_query"  the exception is raised before a statement reaches the
\*                   connection (building the row): the block is untouched;
\*   "in_query"      the INSERT fails in the store (constraint or data error,
\*                   as with log_activity's user_agent=None on the NOT NULL
\*                   column): the store aborts the open transaction and the
\*                   block is marked for rollback, so it rolls back at its
\*                   exit although no exception leaves it.
SideEffectFailures == {"before_query", "in_query"}

\* the exit of an atomic block that may have been marked for rollback
atomic_exit_marked(returned, marked, committed, working) ==
    IF returned /\ ~marked THEN working ELSE committed

\* The exit of the outermost atomic block of p after a side-effect write has
\* failed and the failure has been caught: the call goes on to its return.
FinishAfterFailure(p, outcome, failure, workTxns, workBal) ==
    /\ transactions' = atomic_exit_marked(outcome \in Returned, failure = "in_query",
                                          transactions, workTxns)
    /\ current_balance' = atomic_exit_marked(outcome \in Returned, failure = "in_query",
                                             current_balance, workBal)
    /\ wnew' = [wnew EXCEPT ![p] = <<>>]
    /\ wupd' = [wupd EXCEPT ![p] = Empty]
    /\ wbal' = [wbal EXCEPT ![p] = Empty]
    /\ pc' = [pc EXCEPT ![p] = "idle"]
    /\ op' = [op EXCEPT ![p] = "none"]
    /\ target' = [target EXCEPT ![p] = 0]
    /\ obj' = [obj EXCEPT ![p] = NoObj]
    /\ cursor' = [cursor EXCEPT ![p] = 0]
    /\ result' = outcome

\* create_transaction on data that passes validation, when the audit log
\* write fails: the failure is caught and the transaction returned
create_transaction_audit_fails(p, data, failure) ==
    /\ pc[p] = "idle"
    /\ TotalRows < MaxTxn
    /\ data # <<>>
    /\ BuildEntries(data, <<>>).ok
    /\ validate_transaction(NewTransaction(data)) = {}
    /\ FinishAfterFailure(p, "created", failure,
                          Append(transactions, NewTransaction(data)), current_balance)
    /\ UNCHANGED opening_balance

\* post_transaction after the balance updates, when the audit log write or
\* the notification write fails: the failure is caught and True returned
post_transaction_side_effect_fails(p, failure) ==
    /\ pc[p] = "commit"
    /\ op[p] = "post"
    /\ FinishAfterFailure(p, "posted", failure, WorkingTransactions(p), WorkingBalances(p))
    /\ UNCHANGED opening_balance

\* The store holds MaxTxn - 1 valid drafts; the callers create and post, and
\* the side-effect writes succeed or fail.
AuditInit ==
    /\ opening_balance = [a \in Accounts |->
           IF a = "Cash" THEN OpeningCash ELSE IF a = "Capital" THEN OpeningCapital ELSE 0]
    /\ current_balance \in {[a \in Accounts |-> DefaultCurrentBalance], opening_balance}
    /\ transactions \in [1..(MaxTxn - 1) -> {NewTransaction(d) : d \in ValidData}]
    /\ pc = [p \in Procs |-> "idle"]
    /\ op = [p \in Procs |-> "none"]
    /\ target = [p \in Procs |-> 0]
    /\ obj = [p \in Procs |-> NoObj]
    /\ cursor = [p \in Procs |-> 0]
    /\ wnew = [p \in Procs |-> <<>>]
    /\ wupd = [p \in Procs |-> Empty]
    /\ wbal = [p \in Procs |-> Empty]
    /\ result = "none"

AuditNext ==
    \E p \in Procs :
        \/ \E data \in ValidData : create_transaction(p, data)
        \/ \E data \in ValidData, failure \in SideEffectFailures :
              create_transaction_audit_fails(p, data, failure)
        \/ \E t \in 1..MaxTxn : post_transaction_begin(p, t)
        \/ post_transaction_save(p)
        \/ update_account_balances(p)
        \/ post_transaction_commit(p)
        \/ \E failure \in SideEffectFailures : post_transaction_side_effect_fails(p, failure)
        \/ post_transaction_error(p)
        \/ deadlock_abort(p)

AuditSpec == AuditInit /\ [][AuditNext]_vars

\* ------------------------------------------------------------------ C22
C22_Step ==
    \A p \in Procs, failure \in SideEffectFailures :
        /\ post_transaction_side_effect_fails(p, failure) =>
              /\ result' = "posted"
              /\ transactions'[target[p]].status = POSTED
              /\ \A a \in Accounts : current_balance'[a] = WorkingBalances(p)[a]
        /\ \A data \in ValidData :
              create_transaction_audit_fails(p, data, failure) =>
                  /\ result' = "created"
                  /\ transactions' = Append(transactions, NewTransaction(data))

\* C22: a failure while writing the audit log entry or the posting
\* notification never makes create_transaction or post_transaction report
\* failure or roll back: the call returns normally and its ledger mutation is
\* committed.
C22_SideEffectFailureHarmless == [][C22_Step]_vars

\* ------------------------------------------------ the validation message
\* journals that break several rules of validate_transaction at once
MixedData ==
    { <<Entry(<<Dr("Restricted", MaxAmount + 1), Cr("Capital", 1)>>)>>,
      <<Entry(<<Item("Closed", 1, 1)>>), Entry(<<>>)>>,
      <<Entry(<<Item("Removed", 0, 0), Dr("Cash", 1)>>)>> }

ValidateData == ValidData \cup InvalidData \cup MixedData

\* no validation has been run
NoValidation == [transaction |-> 0, errors |-> {}]

\* validate_transaction(transaction) as post_transaction calls it on row t:
\* the ValidationError carries "; ".join(errors); with no error it returns True
validate_transaction_call(t) ==
    /\ result = NoValidation
    /\ t \in 1..Len(transactions)
    /\ result' = [transaction |-> t, errors |-> validate_transaction(transactions[t])]
    /\ UNCHANGED <<opening_balance, current_balance, transactions, pc, op, target, obj,
                   cursor, wnew, wupd, wbal>>

\* The store holds MaxTxn drafts inserted without validation; one of them is
\* validated.
ValidateInit ==
    /\ opening_balance = [a \in Accounts |->
           IF a = "Cash" THEN OpeningCash ELSE IF a = "Capital" THEN OpeningCapital ELSE 0]
    /\ current_balance = opening_balance
    /\ transactions \in [1..MaxTxn -> {NewTransaction(d) : d \in ValidateData}]
    /\ pc = [p \in Procs |-> "idle"]
    /\ op = [p \in Procs |-> "none"]
    /\ target = [p \in Procs |-> 0]
    /\ obj = [p \in Procs |-> NoObj]
    /\ cursor = [p \in Procs |-> 0]
    /\ wnew = [p \in Procs |-> <<>>]
    /\ wupd = [p \in Procs |-> Empty]
    /\ wbal = [p \in Procs |-> Empty]
    /\ result = NoValidation

ValidateNext == \E t \in 1..MaxTxn : validate_transaction_call(t)

ValidateSpec == ValidateInit /\ [][ValidateNext]_vars

\* ------------------------------------------------------------------ C26
\* the rules that txn breaks, each stated on the journal itself
SomeItem(txn, P(_)) == \E i \in DOMAIN ItemsOf(txn) : P(ItemsOf(txn)[i])
SomeEntry(txn, P(_)) == \E e \in DOMAIN txn.journal_entries : P(txn.journal_entries[e])

NeitherAmount(item) == item.debit_amount = 0 /\ item.credit_amount = 0
BothAmounts(item) == item.debit_amount > 0 /\ item.credit_amount > 0
OnInactive(item) == ~is_active[item.account]
OnNoPosting(item) == ~allow_posting[item.account]
OnDeleted(item) == is_deleted[item.account]
OnUnpostable(item) == ~Postable(item.account)
WithoutItems(entry) == entry.items = <<>>
Lopsided(entry) ==
    SumOver([a \in Accounts |-> DebitsOn(entry.items, a)], Accounts)
        # SumOver([a \in Accounts |-> CreditsOn(entry.items, a)], Accounts)

RulesBroken(txn) ==
    (IF txn.journal_entries = <<>> THEN {"no_entries"} ELSE {})
    \cup (IF TotalDebit(txn) # TotalCredit(txn) THEN {"unbalanced"} ELSE {})
    \cup (IF SomeEntry(txn, WithoutItems) THEN {"entry_no_items"} ELSE {})
    \cup (IF SomeEntry(txn, Lopsided) THEN {"entry_unbalanced"} ELSE {})
    \cup (IF SomeItem(txn, NeitherAmount) THEN {"item_neither"} ELSE {})
    \cup (IF SomeItem(txn, BothAmounts) THEN {"item_both"} ELSE {})
    \cup (IF SomeItem(txn, OnUnpostable) THEN {"item_account"} ELSE {})
    \cup (IF SomeItem(txn, OnInactive) THEN {"not_active"} ELSE {})
    \cup (IF SomeItem(txn, OnNoPosting) THEN {"no_posting"} ELSE {})
    \cup (IF SomeItem(txn, OnDeleted) THEN {"deleted"} ELSE {})

\* C26: validate_transaction evaluates every rule even after one has failed:
\* the single error it raises lists every rule the transaction breaks, not
\* only the first.
C26_AllViolationsReported ==
    result.transaction # 0 =>
        RulesBroken(transactions[result.transaction]) \subseteq result.errors

C26_Witness ==
    /\ result.transaction # 0
    /\ {"unbalanced", "no_posting"} \subseteq result.errors

====
